---------------------------- MODULE Spec2Model ----------------------------
(***************************************************************************)
(* The save-file routes (routes/saveFiles.js): the in-memory TTL cache in  *)
(* front of the per-user listing query, and the list, upload and delete    *)
(* handlers that use it.  Node runs one handler continuation at a time, so *)
(* every stretch of handler code between two awaits is one atomic action;  *)
(* the managed backend (metadata table, object storage) answers each call  *)
(* in a step of its own, between the handler's issue and its resumption.   *)
(***************************************************************************)
EXTENDS Integers, Sequences, FiniteSets, TLC

(* ------------------------------ bounds --------------------------------- *)

\* Requests the server receives in one run.
MaxRequests == 3

\* Requests in flight at once: the slots of the handlers' local state.
Slots == {1, 2}

\* The accounts of the platform, and the ones that send requests in Spec.
Accounts == {"u1", "u2"}
Users == {"u1"}
FileNames == {"a.sav"}

\* The calls of the page's async functions that are in flight at once.
Calls == {1, 2, 3}

(* --------------------------- the cache (code) -------------------------- *)

CACHE_TTL_MS == 5 * 60 * 1000

\* The clock readings of a run: the start, and one millisecond before, at and
\* after the moment an entry written at the start expires.
Times == {0, CACHE_TTL_MS - 1, CACHE_TTL_MS, CACHE_TTL_MS + 1}

\* JavaScript values the handlers pass around: null, or an array of rows.
Null == [isNull |-> TRUE, items |-> <<>>]
Arr(s) == [isNull |-> FALSE, items |-> s]

\* if (cachedSaves): null is falsy, every array (the empty one too) is truthy.
\* (TruthyEmptyFalsy: the empty array taken for falsy.)
TruthyEmptyFalsy(v) == ~v.isNull /\ Len(v.items) > 0
Truthy(v) == ~v.isNull

\* const cacheKey = `user:${user.id}:saves`
\* (cacheKeyShared: the key built without the user's id.)
cacheKeyShared(u) == <<"user", "", "saves">>
cacheKey(u) == <<"user", u, "saves">>
Keys == {cacheKey(u) : u \in Accounts}

\* delete cache[key]
Remove(c, key) == [k \in DOMAIN c \ {key} |-> c[k]]

\* entry && Date.now() - entry.timestamp < CACHE_TTL_MS
\* (IsFreshReversed, IsFreshInclusive: the comparison written > or <=.)
IsFreshReversed(c, key, t) == key \in DOMAIN c /\ t - c[key].timestamp > CACHE_TTL_MS
IsFreshInclusive(c, key, t) == key \in DOMAIN c /\ t - c[key].timestamp <= CACHE_TTL_MS
IsFresh(c, key, t) == key \in DOMAIN c /\ t - c[key].timestamp < CACHE_TTL_MS

\* getCache's return value.
\* (getCacheResultIgnoreAge: the entry's data returned without the age test.)
getCacheResultIgnoreAge(c, key, t) == IF key \in DOMAIN c THEN c[key].data ELSE Null
getCacheResult(c, key, t) == IF IsFresh(c, key, t) THEN c[key].data ELSE Null

\* The cache object after getCache: a stale entry is deleted.
\* (getCacheStoreKeepStale: the stale entry left in place;
\* getCacheStoreResetOnMiss: the whole object emptied on a miss;
\* getCacheStoreDropOnRead: the entry deleted by every read;
\* getCacheStoreTouch: a hit stamps the entry with the clock of the read.)
getCacheStoreTouch(c, key, t) ==
    IF key \in DOMAIN c /\ t - c[key].timestamp < CACHE_TTL_MS
    THEN [c EXCEPT ![key].timestamp = t]
    ELSE [k \in DOMAIN c \ {key} |-> c[k]]
getCacheStoreDropOnRead(c, key, t) == IF key \in DOMAIN c THEN [k \in DOMAIN c \ {key} |-> c[k]] ELSE c
getCacheStoreKeepStale(c, key, t) == c
getCacheStoreResetOnMiss(c, key, t) == IF IsFresh(c, key, t) THEN c ELSE <<>>
getCacheStore(c, key, t) ==
    IF IsFresh(c, key, t) THEN c
    ELSE IF key \in DOMAIN c THEN Remove(c, key)
    ELSE c

\* setCache: the cache object after cache[key] = {data, timestamp: Date.now()}.
\* (setCacheKeepFirst: an existing entry is not replaced;
\* setCacheAlone: the object is replaced by one holding this entry only.)
setCacheAlone(c, key, data, t) == [k \in {key} |-> [data |-> data, timestamp |-> t]]
setCacheKeepFirst(c, key, data, t) ==
    IF key \in DOMAIN c THEN c
    ELSE [k \in DOMAIN c \cup {key} |-> IF k = key THEN [data |-> data, timestamp |-> t] ELSE c[k]]
setCache(c, key, data, t) ==
    [k \in DOMAIN c \cup {key} |->
        IF k = key THEN [data |-> data, timestamp |-> t] ELSE c[k]]

\* invalidateCache: if (cache[key]) delete cache[key].
\* (invalidateCacheStaleOnly: only an expired entry is deleted;
\* invalidateCacheAssignNull: cache[key] = {data: null, ...} instead of delete.)
invalidateCacheAssignNull(c, key, t) ==
    [k \in DOMAIN c \cup {key} |->
        IF k = key THEN [data |-> Null, timestamp |-> t] ELSE c[k]]
invalidateCacheStaleOnly(c, key, t) ==
    IF key \in DOMAIN c /\ ~IsFresh(c, key, t) THEN Remove(c, key) ELSE c
invalidateCache(c, key, t) == IF key \in DOMAIN c THEN Remove(c, key) ELSE c

(* ----------------------- the backend (environment) --------------------- *)

\* filePath = `${user.id}/${Date.now()}_${fileName}`
filePath(u, t, f) == <<u, t, f>>
NoPath == <<"", 0, "">>

\* The columns the list handler selects.
Project(row) == [id |-> row.id, file_name |-> row.file_name, updated_at |-> row.updated_at]

RECURSIVE OrderDesc(_)
OrderDesc(S) ==
    IF S = {} THEN <<>>
    ELSE LET m == CHOOSE x \in S : \A y \in S : y.updated_at <= x.updated_at
         IN  <<Project(m)>> \o OrderDesc(S \ {m})

\* select ... .eq('user_id', user.id).order('updated_at', {ascending: false})
Listing(table, u) == OrderDesc({row \in table : row.user_id = u})

\* .eq('user_id', user.id).eq('file_name', fileName)
\* (RowsOfAnyUser: the user_id filter left out.)
RowsOfAnyUser(table, u, f) == {row \in table : row.file_name = f}
RowsOf(table, u, f) == {row \in table : row.user_id = u /\ row.file_name = f}

\* upsert(..., {onConflict: 'user_id,file_name'}): the row keeps its id.
Upsert(table, u, f, path, n) ==
    IF RowsOf(table, u, f) = {}
    THEN table \cup {[id |-> n, user_id |-> u, file_name |-> f,
                      storage_path |-> path, updated_at |-> n]}
    ELSE {IF row.user_id = u /\ row.file_name = f
          THEN [row EXCEPT !.storage_path = path, !.updated_at = n]
          ELSE row : row \in table}

NoMeta == [found |-> FALSE, id |-> 0, storage_path |-> NoPath]
NoRet == [kind |-> "none", data |-> Null]
Ret(kind, data) == [kind |-> kind, data |-> data]

(* ------------------------------- state --------------------------------- *)

VARIABLES
    cache,          \* the module's cache object: key -> {data, timestamp}
    now,            \* Date.now()
    save_metadata,  \* the save_metadata table
    storage,        \* the objects of the save-files bucket
    rev,            \* the table's sequence: ids and updated_at of its rows
    req,            \* each request in flight: its handler's position and locals
    received,       \* the number of requests received so far
    lastWrite,      \* history: per key, the last setCache or invalidateCache call
    last,           \* history: what the last handler step did (cache call, response)
    history,        \* history: per user, the listings the table has held, in order
    lastMutation,   \* history: per user, the last upload or delete that went through
    responses       \* history: the number of responses sent so far

\* The page of the browser client (app.js).
VARIABLES
    currentUser,      \* let currentUser
    currentSession,   \* let currentSession
    userSection,      \* the display of the user section
    saveFilesListUL,  \* the items of the save-file list, by file name
    listStatusP,      \* the text under the list
    uploadStatusP,    \* the text under the upload form
    authErrorP,       \* the text under the login form
    calls,            \* the calls of the async functions: where each one waits
    lastLogout        \* history: handleLogout has finished and no login since

server == <<cache, now, save_metadata, storage, rev, req, received, lastWrite, last,
            history, lastMutation, responses>>

client == <<currentUser, currentSession, userSection, saveFilesListUL, listStatusP,
            uploadStatusP, authErrorP, calls, lastLogout>>

vars == <<server, client>>

\* null, and the user or the session object of account u.
null == [isNull |-> TRUE, id |-> ""]
Obj(u) == [isNull |-> FALSE, id |-> u]

\* The bodies of the list responses the page receives: the file names, in order.
FileLists == {<<>>} \cup {<<f>> : f \in FileNames}

\* seen (history): the position in history[user] of the listing the request's
\* select read, or of the listing its upsert or row deletion produced.
Idle == [kind |-> "none", user |-> "", file |-> "", pc |-> "idle",
         ret |-> NoRet, path |-> NoPath, meta |-> NoMeta, seen |-> 0]

\* The last write of a key: setCache or invalidateCache, its data, the clock, the
\* key's standing before it, the handler that made it and, for a setCache, the
\* position in the user's history of the listing stored.
NoWrite == [op |-> "none", data |-> Null, at |-> 0, before |-> "absent", by |-> "none",
            seen |-> 0]

\* The last successful mutation of a user's rows: the handler, the clock at its
\* invalidateCache call, the position in history of the listing it produced.
NoMutation == [op |-> "none", at |-> 0, ver |-> 0]

\* How a key stands in the cache object at time t.
Standing(c, key, t) ==
    IF key \notin DOMAIN c THEN "absent"
    ELSE IF t - c[key].timestamp < CACHE_TTL_MS THEN "live"
    ELSE "expired"

\* The record of the last handler step that called a cache function or sent a
\* response: the function (op), the key's standing before the call, the clock
\* at the call, getCache's result; the response (status 0: none; from: "cache"
\* or "store" for a listing; seen: the listing's position in the user's history;
\* object: the storage object whose content a download sent).
NoStep == [kind |-> "none", user |-> "", at |-> 0,
           op |-> "none", before |-> "absent", result |-> Null,
           status |-> 0, body |-> Null, from |-> "none", seen |-> 0, object |-> NoPath]

Step(r, kind, u) == [NoStep EXCEPT !.kind = kind, !.user = u]
CacheStep(r, kind, u, op) ==
    [NoStep EXCEPT !.kind = kind, !.user = u, !.op = op, !.at = now,
                   !.before = Standing(cache, cacheKey(u), now)]

Init ==
    /\ cache = <<>>
    /\ now = 0
    /\ save_metadata = {}
    /\ storage = {}
    /\ rev = 0
    /\ req = [r \in Slots |-> Idle]
    /\ received = 0
    /\ lastWrite = [k \in Keys |-> NoWrite]
    /\ last = NoStep
    /\ history = [u \in Accounts |-> <<Arr(<<>>)>>]
    /\ lastMutation = [u \in Accounts |-> NoMutation]
    /\ responses = 0
    /\ currentUser = null
    /\ currentSession = null
    /\ userSection = "initial"
    /\ saveFilesListUL = <<>>
    /\ listStatusP = ""
    /\ uploadStatusP = ""
    /\ authErrorP = ""
    /\ calls = [c \in Calls |->
                  IF c = 1 THEN [fn |-> "checkUserSession", pc |-> "await_getSession",
                                 ok |-> FALSE]
                  ELSE [fn |-> "none", pc |-> "done", ok |-> FALSE]]
    /\ lastLogout = [finished |-> FALSE, alert |-> FALSE]

\* A new request takes the lowest free slot (the slots are interchangeable).
CanStart(r) ==
    /\ received < MaxRequests
    /\ req[r].pc = "idle"
    /\ \A q \in Slots : q < r => req[q].pc # "idle"

\* The handler of slot r awaits a backend call / resumes with its result.
Await(r, pc) == req' = [req EXCEPT ![r].pc = pc, ![r].ret = NoRet]
Returned(r, pc, ret) == req' = [req EXCEPT ![r].pc = pc, ![r].ret = ret]

\* The cache calls of the handlers, with their history.
CallSet(key, data, seen) ==
    /\ cache' = setCache(cache, key, data, now)
    /\ lastWrite' = [lastWrite EXCEPT ![key] =
            [op |-> "set", data |-> data, at |-> now,
             before |-> Standing(cache, key, now), by |-> "list", seen |-> seen]]

CallInvalidate(key, by) ==
    /\ cache' = invalidateCache(cache, key, now)
    /\ lastWrite' = [lastWrite EXCEPT ![key] =
            [op |-> "invalidate", data |-> Null, at |-> now,
             before |-> Standing(cache, key, now), by |-> by, seen |-> 0]]

\* History of a mutation that went through, taken at its invalidateCache call.
Mutated(u, by, ver) ==
    lastMutation' = [lastMutation EXCEPT ![u] = [op |-> by, at |-> now, ver |-> ver]]

\* res.status(status).json(...): slot r's request is answered, the slot is free.
\* rec is the step's record so far.
Respond(r, rec, status, body, from) ==
    /\ req' = [req EXCEPT ![r] = Idle]
    /\ last' = [rec EXCEPT !.status = status, !.body = body, !.from = from]
    /\ responses' = responses + 1

(* ------------------------------- time ---------------------------------- *)

\* (TickSweep: a timer that deletes the entries that have expired.)
TickSweep ==
    /\ \E t \in Times :
        /\ t > now
        /\ now' = t
        /\ cache' = [k \in {x \in DOMAIN cache : t - cache[x].timestamp < CACHE_TTL_MS} |->
                        cache[k]]
    /\ UNCHANGED <<save_metadata, storage, rev, req, received, lastWrite, last,
                   history, lastMutation, responses>>
    /\ UNCHANGED client

Tick ==
    /\ \E t \in Times : t > now /\ now' = t
    /\ UNCHANGED <<cache, save_metadata, storage, rev, req, received, lastWrite, last,
                   history, lastMutation, responses>>
    /\ UNCHANGED client

(* --------------------------- GET /api/saves ---------------------------- *)

\* The handler up to its first await: getCache, then the answer from the
\* cache or the select query issued.
ListStart(r, U) ==
    /\ CanStart(r)
    /\ received' = received + 1
    /\ \E u \in U :
        LET key == cacheKey(u)
            cachedSaves == getCacheResult(cache, key, now)
            rec == [CacheStep(r, "list", u, "get") EXCEPT !.result = cachedSaves]
        IN  /\ cache' = getCacheStore(cache, key, now)
            /\ IF Truthy(cachedSaves)
               THEN /\ req' = req
                    /\ last' = [rec EXCEPT !.status = 200, !.body = cachedSaves,
                                           !.from = "cache", !.seen = lastWrite[key].seen]
                    /\ responses' = responses + 1
               ELSE /\ req' = [req EXCEPT ![r] =
                            [Idle EXCEPT !.kind = "list", !.user = u, !.pc = "await_select"]]
                    /\ last' = rec
                    /\ UNCHANGED responses
    /\ UNCHANGED <<now, save_metadata, storage, rev, lastWrite, history, lastMutation>>
    /\ UNCHANGED client

\* The backend answers the select: the rows, an error, or the call throws.
SelectReturns(r) ==
    /\ req[r].pc = "await_select"
    /\ \E out \in {"ok", "error", "throw"} :
        IF out = "ok"
        THEN req' = [req EXCEPT ![r].pc = "ret_select",
                        ![r].ret = Ret("ok", Arr(Listing(save_metadata, req[r].user))),
                        ![r].seen = Len(history[req[r].user])]
        ELSE Returned(r, "ret_select", Ret(out, Null))
    /\ UNCHANGED <<cache, now, save_metadata, storage, rev, lastWrite, last, received,
                   history, lastMutation, responses>>
    /\ UNCHANGED client

\* The handler after the await: error or throw -> 500, else setCache and 200.
\* (ListResumeCacheAlways: setCache placed before the error test.)
ListResumeCacheAlways(r) ==
    /\ req[r].pc = "ret_select"
    /\ LET u == req[r].user
           key == cacheKey(u)
           rec == CacheStep(r, "list", u, "set")
       IN  /\ CallSet(key, req[r].ret.data, req[r].seen)
           /\ Respond(r, [rec EXCEPT !.seen = req[r].seen],
                      IF req[r].ret.kind = "ok" THEN 200 ELSE 500,
                      req[r].ret.data, "store")
    /\ UNCHANGED <<now, save_metadata, storage, rev, received, history, lastMutation>>
    /\ UNCHANGED client

ListResume(r) ==
    /\ req[r].pc = "ret_select"
    /\ LET u == req[r].user
           key == cacheKey(u)
       IN  IF req[r].ret.kind # "ok"
           THEN /\ Respond(r, Step(r, "list", u), 500, Null, "none")
                /\ UNCHANGED <<cache, lastWrite>>
           ELSE /\ CallSet(key, req[r].ret.data, req[r].seen)
                /\ Respond(r, [CacheStep(r, "list", u, "set") EXCEPT !.seen = req[r].seen],
                           200, req[r].ret.data, "store")
    /\ UNCHANGED <<now, save_metadata, storage, rev, received, history, lastMutation>>
    /\ UNCHANGED client

(* ------------------------- POST /api/saves/upload ---------------------- *)

\* The handler up to its first await.  Without a file: 400.  JSON.parse of
\* custom_metadata runs before the try block: on invalid JSON the async
\* handler's promise rejects and the handler itself sends nothing.
UploadStart(r, U) ==
    /\ CanStart(r)
    /\ received' = received + 1
    /\ \E u \in U, f \in FileNames, hasFile \in BOOLEAN, validJson \in BOOLEAN :
        LET started == [Idle EXCEPT !.kind = "upload", !.user = u, !.file = f]
        IN  IF ~hasFile
            THEN /\ req' = req
                 /\ last' = [Step(r, "upload", u) EXCEPT !.status = 400]
                 /\ responses' = responses + 1
            ELSE IF ~validJson
            THEN /\ req' = [req EXCEPT ![r] = [started EXCEPT !.pc = "rejected"]]
                 /\ UNCHANGED <<last, responses>>
            ELSE /\ req' = [req EXCEPT ![r] =
                        [started EXCEPT !.pc = "await_upload", !.path = filePath(u, now, f)]]
                 /\ UNCHANGED <<last, responses>>
    /\ UNCHANGED <<cache, now, save_metadata, storage, rev, lastWrite, history, lastMutation>>
    /\ UNCHANGED client

\* storage.from('save-files').upload(filePath, ..., {upsert: true})
StorageUploadReturns(r) ==
    /\ req[r].pc = "await_upload"
    /\ \E out \in {"ok", "error", "throw"} :
        /\ Returned(r, "ret_upload", Ret(out, Null))
        /\ storage' = IF out = "ok" THEN storage \cup {req[r].path} ELSE storage
    /\ UNCHANGED <<cache, now, save_metadata, rev, lastWrite, last, received,
                   history, lastMutation, responses>>
    /\ UNCHANGED client

\* uploadError -> 500 (a throw -> the catch's 500); else the upsert is issued.
\* (UploadAfterStorageInvalidate: invalidateCache called before the error test.)
UploadAfterStorageInvalidate(r) ==
    /\ req[r].pc = "ret_upload"
    /\ CallInvalidate(cacheKey(req[r].user), "upload")
    /\ IF req[r].ret.kind # "ok"
       THEN Respond(r, CacheStep(r, "upload", req[r].user, "invalidate"), 500, Null, "none")
       ELSE /\ Await(r, "await_upsert")
            /\ UNCHANGED <<last, responses>>
    /\ UNCHANGED <<now, save_metadata, storage, rev, received, history, lastMutation>>
    /\ UNCHANGED client

UploadAfterStorage(r) ==
    /\ req[r].pc = "ret_upload"
    /\ IF req[r].ret.kind # "ok"
       THEN Respond(r, Step(r, "upload", req[r].user), 500, Null, "none")
       ELSE /\ Await(r, "await_upsert")
            /\ UNCHANGED <<last, responses>>
    /\ UNCHANGED <<cache, now, save_metadata, storage, rev, lastWrite, received,
                   history, lastMutation>>
    /\ UNCHANGED client

\* from('save_metadata').upsert({...}, {onConflict: 'user_id,file_name'}).select()
UpsertReturns(r) ==
    /\ req[r].pc = "await_upsert"
    /\ \/ /\ save_metadata' = Upsert(save_metadata, req[r].user, req[r].file,
                                     req[r].path, rev + 1)
          /\ rev' = rev + 1
          /\ history' = [history EXCEPT ![req[r].user] =
                            Append(@, Arr(Listing(save_metadata', req[r].user)))]
          /\ req' = [req EXCEPT ![r].pc = "ret_upsert", ![r].ret = Ret("ok", Null),
                                ![r].seen = Len(history'[req[r].user])]
       \/ /\ \E out \in {"error", "throw"} : Returned(r, "ret_upsert", Ret(out, Null))
          /\ UNCHANGED <<save_metadata, rev, history>>
    /\ UNCHANGED <<cache, now, storage, lastWrite, last, received, lastMutation, responses>>
    /\ UNCHANGED client

\* metaError -> the uploaded object's removal is issued; a throw -> 500; else
\* invalidateCache and 201.
\* (UploadAfterUpsertNoInvalidate: the invalidateCache call left out;
\* UploadAfterUpsertNoCleanup: metaError answered 500 without the removal.)
UploadAfterUpsertNoCleanup(r) ==
    /\ req[r].pc = "ret_upsert"
    /\ LET u == req[r].user
           key == cacheKey(u)
       IN  IF req[r].ret.kind # "ok"
           THEN /\ Respond(r, Step(r, "upload", u), 500, Null, "none")
                /\ UNCHANGED <<cache, lastWrite, lastMutation>>
           ELSE /\ CallInvalidate(key, "upload")
                /\ Mutated(u, "upload", req[r].seen)
                /\ Respond(r, CacheStep(r, "upload", u, "invalidate"), 201, Null, "none")
    /\ UNCHANGED <<now, save_metadata, storage, rev, received, history>>
    /\ UNCHANGED client

UploadAfterUpsertNoInvalidate(r) ==
    /\ req[r].pc = "ret_upsert"
    /\ LET u == req[r].user
       IN  IF req[r].ret.kind = "throw"
           THEN Respond(r, Step(r, "upload", u), 500, Null, "none")
           ELSE IF req[r].ret.kind = "error"
           THEN /\ Await(r, "await_cleanup")
                /\ UNCHANGED <<last, responses>>
           ELSE Respond(r, Step(r, "upload", u), 201, Null, "none")
    /\ UNCHANGED <<cache, lastWrite, now, save_metadata, storage, rev, received, history,
                   lastMutation>>
    /\ UNCHANGED client

UploadAfterUpsert(r) ==
    /\ req[r].pc = "ret_upsert"
    /\ LET u == req[r].user
           key == cacheKey(u)
       IN  IF req[r].ret.kind = "throw"
           THEN /\ Respond(r, Step(r, "upload", u), 500, Null, "none")
                /\ UNCHANGED <<cache, lastWrite, lastMutation>>
           ELSE IF req[r].ret.kind = "error"
           THEN /\ Await(r, "await_cleanup")
                /\ UNCHANGED <<last, responses>>
                /\ UNCHANGED <<cache, lastWrite, lastMutation>>
           ELSE /\ CallInvalidate(key, "upload")
                /\ Mutated(u, "upload", req[r].seen)
                /\ Respond(r, CacheStep(r, "upload", u, "invalidate"), 201, Null, "none")
    /\ UNCHANGED <<now, save_metadata, storage, rev, received, history>>
    /\ UNCHANGED client

\* await storage.from('save-files').remove([filePath]) after a failed upsert;
\* its returned error is not looked at.
CleanupReturns(r) ==
    /\ req[r].pc = "await_cleanup"
    /\ \E out \in {"ok", "error", "throw"} :
        /\ Returned(r, "ret_cleanup", Ret(out, Null))
        /\ storage' = IF out = "ok" THEN storage \ {req[r].path} ELSE storage
    /\ UNCHANGED <<cache, now, save_metadata, rev, lastWrite, last, received,
                   history, lastMutation, responses>>
    /\ UNCHANGED client

UploadAfterCleanup(r) ==
    /\ req[r].pc = "ret_cleanup"
    /\ Respond(r, Step(r, "upload", req[r].user), 500, Null, "none")
    /\ UNCHANGED <<cache, now, save_metadata, storage, rev, lastWrite, received,
                   history, lastMutation>>
    /\ UNCHANGED client

\* A rejected handler promise: the framework's error middleware may answer
\* (server.js), or the client gives up on a request that is never answered.
ErrorMiddleware(r) ==
    /\ req[r].pc = "rejected"
    /\ Respond(r, Step(r, req[r].kind, req[r].user), 500, Null, "none")
    /\ UNCHANGED <<cache, now, save_metadata, storage, rev, lastWrite, received,
                   history, lastMutation>>
    /\ UNCHANGED client

Abandon(r) ==
    /\ req[r].pc = "rejected"
    /\ req' = [req EXCEPT ![r] = Idle]
    /\ UNCHANGED <<cache, now, save_metadata, storage, rev, lastWrite, last, received,
                   history, lastMutation, responses>>
    /\ UNCHANGED client

(* ------------------- GET /api/saves/download/:fileName ----------------- *)

DownloadStart(r, U) ==
    /\ CanStart(r)
    /\ received' = received + 1
    /\ \E u \in U, f \in FileNames :
        /\ req' = [req EXCEPT ![r] =
                [Idle EXCEPT !.kind = "download", !.user = u, !.file = f,
                             !.pc = "await_owner"]]
        /\ UNCHANGED <<last, responses>>
    /\ UNCHANGED <<cache, now, save_metadata, storage, rev, lastWrite, history, lastMutation>>
    /\ UNCHANGED client

\* select('storage_path, file_name').eq('user_id', ..).eq('file_name', ..).single()
OwnerCheckReturns(r) ==
    /\ req[r].pc = "await_owner"
    /\ LET rows == RowsOf(save_metadata, req[r].user, req[r].file)
       IN  \/ /\ rows # {}
              /\ \E row \in rows :
                    req' = [req EXCEPT ![r].pc = "ret_owner", ![r].ret = Ret("ok", Null),
                                       ![r].meta = [found |-> TRUE, id |-> row.id,
                                                    storage_path |-> row.storage_path]]
           \/ \E out \in {"error", "throw"} : Returned(r, "ret_owner", Ret(out, Null))
    /\ UNCHANGED <<cache, now, save_metadata, storage, rev, lastWrite, last, received,
                   history, lastMutation, responses>>
    /\ UNCHANGED client

\* metaError || !meta -> 404 (a throw -> 500); else the object's download is issued.
DownloadAfterOwnerCheck(r) ==
    /\ req[r].pc = "ret_owner"
    /\ LET u == req[r].user
       IN  IF req[r].ret.kind = "throw"
           THEN Respond(r, Step(r, "download", u), 500, Null, "none")
           ELSE IF req[r].ret.kind = "error" \/ ~req[r].meta.found
           THEN Respond(r, Step(r, "download", u), 404, Null, "none")
           ELSE /\ Await(r, "await_download")
                /\ UNCHANGED <<last, responses>>
    /\ UNCHANGED <<cache, now, save_metadata, storage, rev, lastWrite, received,
                   history, lastMutation>>
    /\ UNCHANGED client

\* storage.from('save-files').download(meta.storage_path): the object's content
\* when the object is there, else an error; or the call throws.
StorageDownloadReturns(r) ==
    /\ req[r].pc = "await_download"
    /\ \/ /\ req[r].meta.storage_path \in storage
          /\ Returned(r, "ret_download", Ret("ok", Null))
       \/ \E out \in {"error", "throw"} : Returned(r, "ret_download", Ret(out, Null))
    /\ UNCHANGED <<cache, now, save_metadata, storage, rev, lastWrite, last, received,
                   history, lastMutation, responses>>
    /\ UNCHANGED client

\* downloadError -> 500 (a throw -> 500); else the blob is converted and sent,
\* or the conversion fails -> 500.  The conversion's callbacks touch only the
\* request's own blob and response.
DownloadAfterStorage(r) ==
    /\ req[r].pc = "ret_download"
    /\ LET u == req[r].user
       IN  IF req[r].ret.kind # "ok"
           THEN Respond(r, Step(r, "download", u), 500, Null, "none")
           ELSE \E converted \in BOOLEAN :
                    IF converted
                    THEN Respond(r, [Step(r, "download", u) EXCEPT
                                        !.object = req[r].meta.storage_path],
                                 200, Null, "none")
                    ELSE Respond(r, Step(r, "download", u), 500, Null, "none")
    /\ UNCHANGED <<cache, now, save_metadata, storage, rev, lastWrite, received,
                   history, lastMutation>>
    /\ UNCHANGED client

(* ----------------------- DELETE /api/saves/:fileName ------------------- *)

DeleteStart(r, U) ==
    /\ CanStart(r)
    /\ received' = received + 1
    /\ \E u \in U, f \in FileNames :
        /\ req' = [req EXCEPT ![r] =
                [Idle EXCEPT !.kind = "delete", !.user = u, !.file = f, !.pc = "await_find"]]
        /\ UNCHANGED <<last, responses>>
    /\ UNCHANGED <<cache, now, save_metadata, storage, rev, lastWrite, history, lastMutation>>
    /\ UNCHANGED client

\* select('id, storage_path').eq('user_id', ..).eq('file_name', ..).single():
\* the row, or an error (no row is an error of single()), or a throw.
FindReturns(r) ==
    /\ req[r].pc = "await_find"
    /\ LET rows == RowsOf(save_metadata, req[r].user, req[r].file)
       IN  \/ /\ rows # {}
              /\ \E row \in rows :
                    req' = [req EXCEPT ![r].pc = "ret_find", ![r].ret = Ret("ok", Null),
                                       ![r].meta = [found |-> TRUE, id |-> row.id,
                                                    storage_path |-> row.storage_path]]
           \/ \E out \in {"error", "throw"} : Returned(r, "ret_find", Ret(out, Null))
    /\ UNCHANGED <<cache, now, save_metadata, storage, rev, lastWrite, last, received,
                   history, lastMutation, responses>>
    /\ UNCHANGED client

\* metaError || !meta -> 404 (a throw -> 500); else the object's removal is issued.
DeleteAfterFind(r) ==
    /\ req[r].pc = "ret_find"
    /\ LET u == req[r].user
       IN  IF req[r].ret.kind = "throw"
           THEN Respond(r, Step(r, "delete", u), 500, Null, "none")
           ELSE IF req[r].ret.kind = "error" \/ ~req[r].meta.found
           THEN Respond(r, Step(r, "delete", u), 404, Null, "none")
           ELSE /\ Await(r, "await_remove")
                /\ UNCHANGED <<last, responses>>
    /\ UNCHANGED <<cache, now, save_metadata, storage, rev, lastWrite, received,
                   history, lastMutation>>
    /\ UNCHANGED client

\* storage.from('save-files').remove([meta.storage_path])
RemoveReturns(r) ==
    /\ req[r].pc = "await_remove"
    /\ \E out \in {"ok", "error", "throw"} :
        /\ Returned(r, "ret_remove", Ret(out, Null))
        /\ storage' = IF out = "ok" THEN storage \ {req[r].meta.storage_path} ELSE storage
    /\ UNCHANGED <<cache, now, save_metadata, rev, lastWrite, last, received,
                   history, lastMutation, responses>>
    /\ UNCHANGED client

\* storageError is logged and passed over (a throw -> 500); the row's deletion
\* is issued.
\* (DeleteAfterRemoveStrict: storageError answered 500.)
DeleteAfterRemoveStrict(r) ==
    /\ req[r].pc = "ret_remove"
    /\ IF req[r].ret.kind # "ok"
       THEN Respond(r, Step(r, "delete", req[r].user), 500, Null, "none")
       ELSE /\ Await(r, "await_dbdelete")
            /\ UNCHANGED <<last, responses>>
    /\ UNCHANGED <<cache, now, save_metadata, storage, rev, lastWrite, received,
                   history, lastMutation>>
    /\ UNCHANGED client

DeleteAfterRemove(r) ==
    /\ req[r].pc = "ret_remove"
    /\ IF req[r].ret.kind = "throw"
       THEN Respond(r, Step(r, "delete", req[r].user), 500, Null, "none")
       ELSE /\ Await(r, "await_dbdelete")
            /\ UNCHANGED <<last, responses>>
    /\ UNCHANGED <<cache, now, save_metadata, storage, rev, lastWrite, received,
                   history, lastMutation>>
    /\ UNCHANGED client

\* from('save_metadata').delete().eq('id', meta.id)
DbDeleteReturns(r) ==
    /\ req[r].pc = "await_dbdelete"
    /\ \/ /\ save_metadata' = {row \in save_metadata : row.id # req[r].meta.id}
          /\ history' = [history EXCEPT ![req[r].user] =
                            Append(@, Arr(Listing(save_metadata', req[r].user)))]
          /\ req' = [req EXCEPT ![r].pc = "ret_dbdelete", ![r].ret = Ret("ok", Null),
                                ![r].seen = Len(history'[req[r].user])]
       \/ /\ \E out \in {"error", "throw"} : Returned(r, "ret_dbdelete", Ret(out, Null))
          /\ UNCHANGED <<save_metadata, history>>
    /\ UNCHANGED <<cache, now, storage, rev, lastWrite, last, received, lastMutation, responses>>
    /\ UNCHANGED client

\* dbError -> 500 (a throw -> 500); else invalidateCache and 200.
\* (DeleteAfterDbDeleteInvalidateFirst: invalidateCache called before the
\* dbError test.)
DeleteAfterDbDeleteInvalidateFirst(r) ==
    /\ req[r].pc = "ret_dbdelete"
    /\ LET u == req[r].user
           key == cacheKey(u)
       IN  /\ CallInvalidate(key, "delete")
           /\ Mutated(u, "delete", req[r].seen)
           /\ Respond(r, CacheStep(r, "delete", u, "invalidate"),
                      IF req[r].ret.kind # "ok" THEN 500 ELSE 200, Null, "none")
    /\ UNCHANGED <<now, save_metadata, storage, rev, received, history>>
    /\ UNCHANGED client

DeleteAfterDbDelete(r) ==
    /\ req[r].pc = "ret_dbdelete"
    /\ LET u == req[r].user
           key == cacheKey(u)
       IN  IF req[r].ret.kind # "ok"
           THEN /\ Respond(r, Step(r, "delete", u), 500, Null, "none")
                /\ UNCHANGED <<cache, lastWrite, lastMutation>>
           ELSE /\ CallInvalidate(key, "delete")
                /\ Mutated(u, "delete", req[r].seen)
                /\ Respond(r, CacheStep(r, "delete", u, "invalidate"), 200, Null, "none")
    /\ UNCHANGED <<now, save_metadata, storage, rev, received, history>>
    /\ UNCHANGED client

(* ---------------------- the browser client (app.js) -------------------- *)

\* An async function that is not running a call.
NoCall == [fn |-> "none", pc |-> "done", ok |-> FALSE]
Awaiting(fn, pc) == [fn |-> fn, pc |-> pc, ok |-> FALSE]

\* A handler starts in the lowest free call (the calls are interchangeable).
CanCall(c) ==
    /\ calls[c] = NoCall
    /\ \A d \in Calls : d < c => calls[d] # NoCall

\* What is on display: the login form unless the user section was shown, the
\* user section (logout button, upload form, list) unless it was hidden.
LoginFormShown == userSection \in {"initial", "none"}
UserSectionShown == userSection \in {"initial", "block"}

\* updateUIVisibility(isLoggedIn): the display of the user section (the display
\* of the login section is the opposite one).
updateUIVisibility(isLoggedIn) == IF isLoggedIn THEN "block" ELSE "none"

\* loadSaveFiles() up to its first await, called in call c's step when
\* currentSession is session and the list status is status: nothing without a
\* session; else the status is set, the list is cleared and the fetch is sent.
loadSaveFiles(c, session, status) ==
    IF session = null
    THEN /\ calls' = [calls EXCEPT ![c] = NoCall]
         /\ listStatusP' = status
         /\ UNCHANGED saveFilesListUL
    ELSE /\ calls' = [calls EXCEPT ![c] = Awaiting("loadSaveFiles", "await_fetch")]
         /\ listStatusP' = "Loading save files..."
         /\ saveFilesListUL' = <<>>

\* loadSaveFiles after `await fetch(...)`: a rejected fetch goes to the catch,
\* a response goes on to `await response.json()`, its ok flag kept.
LoadAfterFetch(c) ==
    /\ calls[c] = Awaiting("loadSaveFiles", "await_fetch")
    /\ \E outcome \in {"reject", "ok", "not ok"} :
        IF outcome = "reject"
        THEN /\ listStatusP' = "Error"
             /\ calls' = [calls EXCEPT ![c] = NoCall]
        ELSE /\ calls' = [calls EXCEPT ![c] = [fn |-> "loadSaveFiles", pc |-> "await_json",
                                              ok |-> (outcome = "ok")]]
             /\ UNCHANGED listStatusP
    /\ UNCHANGED <<currentUser, currentSession, userSection, saveFilesListUL,
                   uploadStatusP, authErrorP, lastLogout>>
    /\ UNCHANGED server

\* loadSaveFiles after `await response.json()`: a body that does not parse and
\* a response that is not ok go to the catch; else the status is set and one
\* item per file is appended to the list. currentSession is not read again.
LoadAfterJson(c) ==
    /\ calls[c].fn = "loadSaveFiles"
    /\ calls[c].pc = "await_json"
    /\ calls' = [calls EXCEPT ![c] = NoCall]
    /\ \E parsed \in BOOLEAN, files \in FileLists :
        IF parsed /\ calls[c].ok
        THEN /\ listStatusP' = IF Len(files) > 0 THEN "" ELSE "No save files found."
             /\ saveFilesListUL' = saveFilesListUL \o files
        ELSE /\ listStatusP' = "Error"
             /\ UNCHANGED saveFilesListUL
    /\ UNCHANGED <<currentUser, currentSession, userSection, uploadStatusP, authErrorP,
                   lastLogout>>
    /\ UNCHANGED server

\* checkUserSession after `await getSession()` (called once, when the page has
\* loaded): an error or no session shows the login form; a session is taken
\* over, the user section shown and loadSaveFiles called.
CheckUserSessionResume(c) ==
    /\ calls[c] = Awaiting("checkUserSession", "await_getSession")
    /\ \E outcome \in {"error", "no session"} \cup Accounts :
        IF outcome \in Accounts
        THEN /\ currentUser' = Obj(outcome)
             /\ currentSession' = Obj(outcome)
             /\ userSection' = updateUIVisibility(TRUE)
             /\ loadSaveFiles(c, Obj(outcome), listStatusP)
             /\ lastLogout' = [lastLogout EXCEPT !.finished = FALSE]
        ELSE /\ userSection' = updateUIVisibility(FALSE)
             /\ calls' = [calls EXCEPT ![c] = NoCall]
             /\ UNCHANGED <<currentUser, currentSession, listStatusP, saveFilesListUL,
                            lastLogout>>
    /\ UNCHANGED <<uploadStatusP, authErrorP>>
    /\ UNCHANGED server

\* handleLogin up to `await signInWithPassword(...)`: a submit of the login form.
HandleLoginStart(c) ==
    /\ CanCall(c)
    /\ LoginFormShown
    /\ authErrorP' = ""
    /\ calls' = [calls EXCEPT ![c] = Awaiting("handleLogin", "await_signIn")]
    /\ UNCHANGED <<currentUser, currentSession, userSection, saveFilesListUL, listStatusP,
                   uploadStatusP, lastLogout>>
    /\ UNCHANGED server

\* handleLogin after the await: an error, missing user data and a throw set
\* the error text; a user with a session is taken over, the user section
\* shown and loadSaveFiles called.
HandleLoginResume(c) ==
    /\ calls[c] = Awaiting("handleLogin", "await_signIn")
    /\ \E outcome \in {"error", "no data", "throw"} \cup Accounts :
        IF outcome \in Accounts
        THEN /\ currentUser' = Obj(outcome)
             /\ currentSession' = Obj(outcome)
             /\ userSection' = updateUIVisibility(TRUE)
             /\ loadSaveFiles(c, Obj(outcome), listStatusP)
             /\ lastLogout' = [lastLogout EXCEPT !.finished = FALSE]
             /\ UNCHANGED authErrorP
        ELSE /\ authErrorP' = "Login failed"
             /\ calls' = [calls EXCEPT ![c] = NoCall]
             /\ UNCHANGED <<currentUser, currentSession, userSection, listStatusP,
                            saveFilesListUL, lastLogout>>
    /\ UNCHANGED uploadStatusP
    /\ UNCHANGED server

\* handleLogout up to `await signOut()`: a click on the logout button.
HandleLogoutStart(c) ==
    /\ CanCall(c)
    /\ UserSectionShown
    /\ calls' = [calls EXCEPT ![c] = Awaiting("handleLogout", "await_signOut")]
    /\ UNCHANGED <<currentUser, currentSession, userSection, saveFilesListUL, listStatusP,
                   uploadStatusP, authErrorP, lastLogout>>
    /\ UNCHANGED server

\* handleLogout after the await: an error is shown in an alert; with or
\* without it the user and the session are dropped, the user section hidden
\* and the list cleared.
HandleLogoutResume(c) ==
    /\ calls[c] = Awaiting("handleLogout", "await_signOut")
    /\ \E error \in BOOLEAN : lastLogout' = [finished |-> TRUE, alert |-> error]
    /\ currentUser' = null
    /\ currentSession' = null
    /\ userSection' = updateUIVisibility(FALSE)
    /\ saveFilesListUL' = <<>>
    /\ calls' = [calls EXCEPT ![c] = NoCall]
    /\ UNCHANGED <<listStatusP, uploadStatusP, authErrorP>>
    /\ UNCHANGED server

\* handleUpload up to `await fetch(...)`: a submit of the upload form with a
\* session and a file chosen; custom metadata that is not JSON stops it.
HandleUploadStart(c) ==
    /\ CanCall(c)
    /\ UserSectionShown
    /\ currentSession # null
    /\ \E validMetadata \in BOOLEAN :
        IF validMetadata
        THEN /\ uploadStatusP' = "Uploading..."
             /\ calls' = [calls EXCEPT ![c] = Awaiting("handleUpload", "await_fetch")]
        ELSE /\ uploadStatusP' = "Error"
             /\ UNCHANGED calls
    /\ UNCHANGED <<currentUser, currentSession, userSection, saveFilesListUL, listStatusP,
                   authErrorP, lastLogout>>
    /\ UNCHANGED server

\* handleUpload after `await fetch(...)`.
HandleUploadAfterFetch(c) ==
    /\ calls[c] = Awaiting("handleUpload", "await_fetch")
    /\ \E outcome \in {"reject", "ok", "not ok"} :
        IF outcome = "reject"
        THEN /\ uploadStatusP' = "Error"
             /\ calls' = [calls EXCEPT ![c] = NoCall]
        ELSE /\ calls' = [calls EXCEPT ![c] = [fn |-> "handleUpload", pc |-> "await_json",
                                              ok |-> (outcome = "ok")]]
             /\ UNCHANGED uploadStatusP
    /\ UNCHANGED <<currentUser, currentSession, userSection, saveFilesListUL, listStatusP,
                   authErrorP, lastLogout>>
    /\ UNCHANGED server

\* handleUpload after `await response.json()`: on success the form is reset and
\* loadSaveFiles called.
HandleUploadAfterJson(c) ==
    /\ calls[c].fn = "handleUpload"
    /\ calls[c].pc = "await_json"
    /\ \E parsed \in BOOLEAN :
        IF parsed /\ calls[c].ok
        THEN /\ uploadStatusP' = "Success"
             /\ loadSaveFiles(c, currentSession, listStatusP)
        ELSE /\ uploadStatusP' = "Error"
             /\ calls' = [calls EXCEPT ![c] = NoCall]
             /\ UNCHANGED <<listStatusP, saveFilesListUL>>
    /\ UNCHANGED <<currentUser, currentSession, userSection, authErrorP, lastLogout>>
    /\ UNCHANGED server

\* handleDelete up to `await fetch(...)`: a click on the delete button of an
\* item of the list, with a session, confirmed.
HandleDeleteStart(c) ==
    /\ CanCall(c)
    /\ UserSectionShown
    /\ saveFilesListUL # <<>>
    /\ currentSession # null
    /\ listStatusP' = "Deleting..."
    /\ calls' = [calls EXCEPT ![c] = Awaiting("handleDelete", "await_fetch")]
    /\ UNCHANGED <<currentUser, currentSession, userSection, saveFilesListUL,
                   uploadStatusP, authErrorP, lastLogout>>
    /\ UNCHANGED server

\* handleDelete after `await fetch(...)`.
HandleDeleteAfterFetch(c) ==
    /\ calls[c] = Awaiting("handleDelete", "await_fetch")
    /\ \E outcome \in {"reject", "ok", "not ok"} :
        IF outcome = "reject"
        THEN /\ listStatusP' = "Error deleting"
             /\ calls' = [calls EXCEPT ![c] = NoCall]
        ELSE /\ calls' = [calls EXCEPT ![c] = [fn |-> "handleDelete", pc |-> "await_json",
                                              ok |-> (outcome = "ok")]]
             /\ UNCHANGED listStatusP
    /\ UNCHANGED <<currentUser, currentSession, userSection, saveFilesListUL,
                   uploadStatusP, authErrorP, lastLogout>>
    /\ UNCHANGED server

\* handleDelete after `await response.json()`: on success loadSaveFiles is called.
HandleDeleteAfterJson(c) ==
    /\ calls[c].fn = "handleDelete"
    /\ calls[c].pc = "await_json"
    /\ \E parsed \in BOOLEAN :
        IF parsed /\ calls[c].ok
        THEN loadSaveFiles(c, currentSession, "Success")
        ELSE /\ listStatusP' = "Error deleting"
             /\ calls' = [calls EXCEPT ![c] = NoCall]
             /\ UNCHANGED saveFilesListUL
    /\ UNCHANGED <<currentUser, currentSession, userSection, uploadStatusP, authErrorP,
                   lastLogout>>
    /\ UNCHANGED server

(* ----------------------------- the system ------------------------------ *)

Next ==
    \/ Tick
    \/ \E r \in Slots : ListStart(r, Users)
    \/ \E r \in Slots : SelectReturns(r)
    \/ \E r \in Slots : ListResume(r)
    \/ \E r \in Slots : UploadStart(r, Users)
    \/ \E r \in Slots : StorageUploadReturns(r)
    \/ \E r \in Slots : UploadAfterStorage(r)
    \/ \E r \in Slots : UpsertReturns(r)
    \/ \E r \in Slots : UploadAfterUpsert(r)
    \/ \E r \in Slots : CleanupReturns(r)
    \/ \E r \in Slots : UploadAfterCleanup(r)
    \/ \E r \in Slots : ErrorMiddleware(r)
    \/ \E r \in Slots : Abandon(r)
    \/ \E r \in Slots : DownloadStart(r, Users)
    \/ \E r \in Slots : OwnerCheckReturns(r)
    \/ \E r \in Slots : DownloadAfterOwnerCheck(r)
    \/ \E r \in Slots : StorageDownloadReturns(r)
    \/ \E r \in Slots : DownloadAfterStorage(r)
    \/ \E r \in Slots : DeleteStart(r, Users)
    \/ \E r \in Slots : FindReturns(r)
    \/ \E r \in Slots : DeleteAfterFind(r)
    \/ \E r \in Slots : RemoveReturns(r)
    \/ \E r \in Slots : DeleteAfterRemove(r)
    \/ \E r \in Slots : DbDeleteReturns(r)
    \/ \E r \in Slots : DeleteAfterDbDelete(r)

Spec == Init /\ [][Next]_vars

\* The same server with requests from every account.
NextUsers ==
    \/ Tick
    \/ \E r \in Slots : ListStart(r, Accounts)
    \/ \E r \in Slots : SelectReturns(r)
    \/ \E r \in Slots : ListResume(r)
    \/ \E r \in Slots : UploadStart(r, Accounts)
    \/ \E r \in Slots : StorageUploadReturns(r)
    \/ \E r \in Slots : UploadAfterStorage(r)
    \/ \E r \in Slots : UpsertReturns(r)
    \/ \E r \in Slots : UploadAfterUpsert(r)
    \/ \E r \in Slots : CleanupReturns(r)
    \/ \E r \in Slots : UploadAfterCleanup(r)
    \/ \E r \in Slots : ErrorMiddleware(r)
    \/ \E r \in Slots : Abandon(r)
    \/ \E r \in Slots : DownloadStart(r, Accounts)
    \/ \E r \in Slots : OwnerCheckReturns(r)
    \/ \E r \in Slots : DownloadAfterOwnerCheck(r)
    \/ \E r \in Slots : StorageDownloadReturns(r)
    \/ \E r \in Slots : DownloadAfterStorage(r)
    \/ \E r \in Slots : DeleteStart(r, Accounts)
    \/ \E r \in Slots : FindReturns(r)
    \/ \E r \in Slots : DeleteAfterFind(r)
    \/ \E r \in Slots : RemoveReturns(r)
    \/ \E r \in Slots : DeleteAfterRemove(r)
    \/ \E r \in Slots : DbDeleteReturns(r)
    \/ \E r \in Slots : DeleteAfterDbDelete(r)

SpecUsers == Init /\ [][NextUsers]_vars

\* The same server when its clients send one request at a time: a request is
\* received only when no other is in flight.
NoOverlap == \A r \in Slots : req[r].pc = "idle"

NextSequential ==
    \/ Tick
    \/ \E r \in Slots : NoOverlap /\ ListStart(r, Accounts)
    \/ \E r \in Slots : SelectReturns(r)
    \/ \E r \in Slots : ListResume(r)
    \/ \E r \in Slots : NoOverlap /\ UploadStart(r, Accounts)
    \/ \E r \in Slots : StorageUploadReturns(r)
    \/ \E r \in Slots : UploadAfterStorage(r)
    \/ \E r \in Slots : UpsertReturns(r)
    \/ \E r \in Slots : UploadAfterUpsert(r)
    \/ \E r \in Slots : CleanupReturns(r)
    \/ \E r \in Slots : UploadAfterCleanup(r)
    \/ \E r \in Slots : ErrorMiddleware(r)
    \/ \E r \in Slots : Abandon(r)
    \/ \E r \in Slots : NoOverlap /\ DownloadStart(r, Accounts)
    \/ \E r \in Slots : OwnerCheckReturns(r)
    \/ \E r \in Slots : DownloadAfterOwnerCheck(r)
    \/ \E r \in Slots : StorageDownloadReturns(r)
    \/ \E r \in Slots : DownloadAfterStorage(r)
    \/ \E r \in Slots : NoOverlap /\ DeleteStart(r, Accounts)
    \/ \E r \in Slots : FindReturns(r)
    \/ \E r \in Slots : DeleteAfterFind(r)
    \/ \E r \in Slots : RemoveReturns(r)
    \/ \E r \in Slots : DeleteAfterRemove(r)
    \/ \E r \in Slots : DbDeleteReturns(r)
    \/ \E r \in Slots : DeleteAfterDbDelete(r)

SpecSequential == Init /\ [][NextSequential]_vars

\* The browser client of one page, the server's answers being its inputs.
NextClient ==
    \/ \E c \in Calls : CheckUserSessionResume(c)
    \/ \E c \in Calls : HandleLoginStart(c)
    \/ \E c \in Calls : HandleLoginResume(c)
    \/ \E c \in Calls : HandleLogoutStart(c)
    \/ \E c \in Calls : HandleLogoutResume(c)
    \/ \E c \in Calls : LoadAfterFetch(c)
    \/ \E c \in Calls : LoadAfterJson(c)
    \/ \E c \in Calls : HandleUploadStart(c)
    \/ \E c \in Calls : HandleUploadAfterFetch(c)
    \/ \E c \in Calls : HandleUploadAfterJson(c)
    \/ \E c \in Calls : HandleDeleteStart(c)
    \/ \E c \in Calls : HandleDeleteAfterFetch(c)
    \/ \E c \in Calls : HandleDeleteAfterJson(c)

SpecClient == Init /\ [][NextClient]_vars

(* ------------------------------ the claims ----------------------------- *)

\* The key of the last recorded handler step, and the time from that key's
\* last write to the step's cache call.
LastKey == cacheKey(last.user)
LastGet == last.op = "get"
SinceWrite == last.at - lastWrite[LastKey].at

\* The resumption of slot r's handler with a backend result in hand.
Resumes(r, pc) == req[r].pc = pc /\ req'[r] # req[r]

\* C1 (fresh hit): a getCache(k) made less than CACHE_TTL_MS after the last
\* setCache(k, v), with no invalidateCache(k) in between, returns exactly v.
C1_FreshHit ==
    (LastGet /\ lastWrite[LastKey].op = "set" /\ SinceWrite < CACHE_TTL_MS)
        => last.result = lastWrite[LastKey].data

\* The listing stored at the start is read back one millisecond before it expires.
C1_Witness ==
    /\ LastGet
    /\ lastWrite[LastKey].op = "set"
    /\ SinceWrite = CACHE_TTL_MS - 1
    /\ last.result = lastWrite[LastKey].data
    /\ Len(last.result.items) > 0

\* C2 (expiry boundary): a getCache(k) made CACHE_TTL_MS or more after the last
\* setCache(k, v) returns null: elapsed = TTL already counts as expired.
C2_ExpiryBoundary ==
    (LastGet /\ lastWrite[LastKey].op = "set" /\ SinceWrite >= CACHE_TTL_MS)
        => last.result = Null

\* A read at exactly t + TTL of a listing stored at t.
C2_Witness ==
    /\ LastGet
    /\ lastWrite[LastKey].op = "set"
    /\ SinceWrite = CACHE_TTL_MS
    /\ last.result = Null

\* C3: after invalidateCache(k) the key has no entry, and the next getCache(k)
\* returns null, whatever the clock says and however the key stood (live,
\* expired but present, absent) when it was invalidated.
C3_InvalidateThenGet ==
    /\ \A k \in Keys : lastWrite[k].op = "invalidate" => k \notin DOMAIN cache
    /\ (LastGet /\ lastWrite[LastKey].op = "invalidate") => last.result = Null

\* A list request right after an upload invalidated a live entry: getCache
\* returned null with no time elapsed.
C3_Witness ==
    /\ LastGet
    /\ lastWrite[LastKey].op = "invalidate"
    /\ lastWrite[LastKey].by = "upload"
    /\ lastWrite[LastKey].before = "live"
    /\ SinceWrite = 0
    /\ last.result = Null

\* The upload or delete handler of slot r holds the success of its metadata
\* mutation (the upsert, the row's deletion).
MutationObserved(r) ==
    /\ req[r].ret.kind = "ok"
    /\ \/ req[r].kind = "upload" /\ req[r].pc = "ret_upsert"
       \/ req[r].kind = "delete" /\ req[r].pc = "ret_dbdelete"

\* C4: the handler step that follows the success of an upload's upsert or a
\* delete's row deletion invalidates that user's key and sends the success
\* response in that same step (no await in between); a success response of
\* upload or delete, and an invalidation, come from no other step.
C4_InvalidateAfterMutation ==
    [][/\ \A r \in Slots :
            (MutationObserved(r) /\ req'[r] # req[r]) =>
                /\ cacheKey(req[r].user) \notin DOMAIN cache'
                /\ lastWrite'[cacheKey(req[r].user)].op = "invalidate"
                /\ lastWrite'[cacheKey(req[r].user)].at = now
                /\ last'.op = "invalidate"
                /\ last'.user = req[r].user
                /\ last'.status = IF req[r].kind = "upload" THEN 201 ELSE 200
                /\ req'[r].pc = "idle"
       /\ \A k \in Keys :
            (lastWrite'[k] # lastWrite[k] /\ lastWrite'[k].op = "invalidate") =>
                \E r \in Slots : MutationObserved(r) /\ req'[r] # req[r]
                                    /\ k = cacheKey(req[r].user)
       /\ (last' # last /\ last'.kind \in {"upload", "delete"}
                /\ last'.status \in {200, 201}) =>
                \E r \in Slots : MutationObserved(r) /\ req'[r] # req[r]
      ]_vars

\* A delete went through and its invalidation removed a live entry.
C4_Witness ==
    /\ last.kind = "delete"
    /\ last.status = 200
    /\ last.op = "invalidate"
    /\ last.before = "live"
    /\ LastKey \notin DOMAIN cache

\* The list handler of slot r resumes with a failed select (error or throw).
ListFails(r) == Resumes(r, "ret_select") /\ req[r].ret.kind # "ok"

\* C5 as claimed: after a list request whose select failed, the cache holds
\* no entry for the user's key.
C5_NoEntryAfterFailure ==
    [][\A r \in Slots :
            ListFails(r) => cacheKey(req[r].user) \notin DOMAIN cache']_vars

\* C5 as amended: a list request whose select failed calls no cache function
\* in its failing step, leaves the cache as it was and is answered 500.
C5_FailureLeavesCache ==
    [][\A r \in Slots :
            ListFails(r) =>
                /\ cache' = cache
                /\ lastWrite' = lastWrite
                /\ last'.op = "none"
                /\ last'.kind = "list"
                /\ last'.status = 500
                /\ last'.body = Null
                /\ req'[r].pc = "idle"]_vars

\* A failed list request answered 500 while the key holds the entry another
\* list request stored.
C5_Witness ==
    /\ last.kind = "list"
    /\ last.status = 500
    /\ LastKey \in DOMAIN cache

\* A list request is received in this step and its handler runs getCache: it
\* answers at once, or a free slot now holds a list request.
ListReceived ==
    /\ received' # received
    /\ last'.kind = "list"
    /\ last'.op = "get"
    /\ \/ req' = req
       \/ \E r \in Slots : req[r].pc = "idle" /\ req'[r].kind = "list"

\* C6 (read-through): a list request that finds a live entry answers 200 with
\* the cached listing and issues no query; one that finds the key absent or
\* expired issues the select, and only then; when the select succeeds the
\* handler stores the fetched listing under the user's key, stamped with the
\* clock, and answers 200 with that same listing, and its request is over.
C6_ReadThrough ==
    [][/\ ListReceived =>
            LET key == cacheKey(last'.user)
            IN  IF Standing(cache, key, now) = "live"
                THEN /\ last'.status = 200
                     /\ last'.body = cache[key].data
                     /\ last'.from = "cache"
                     /\ req' = req
                ELSE /\ last'.status = 0
                     /\ \E r \in Slots :
                            /\ req[r].pc = "idle"
                            /\ req'[r].pc = "await_select"
                            /\ req'[r].user = last'.user
                            /\ \A q \in Slots \ {r} : req'[q] = req[q]
       /\ \A r \in Slots :
            (req'[r].pc = "await_select" /\ req[r].pc # "await_select") => ListReceived
       /\ \A r \in Slots :
            (Resumes(r, "ret_select") /\ req[r].ret.kind = "ok") =>
                LET key == cacheKey(req[r].user)
                IN  /\ key \in DOMAIN cache'
                    /\ cache'[key] = [data |-> req[r].ret.data, timestamp |-> now]
                    /\ last'.status = 200
                    /\ last'.body = req[r].ret.data
                    /\ last'.from = "store"
                    /\ req'[r].pc = "idle"
      ]_vars

\* A list request fetched a listing with a file in it, stored it and sent it.
C6_Witness ==
    /\ last.kind = "list"
    /\ last.op = "set"
    /\ last.status = 200
    /\ last.from = "store"
    /\ Len(last.body.items) > 0
    /\ cache[LastKey].data = last.body

\* C7 (an empty listing is cached): a list request made less than CACHE_TTL_MS
\* after an empty listing was stored for the user, with no invalidation in
\* between, is answered 200 with the empty listing from the cache, and no
\* select is issued.
C7_EmptyListingCached ==
    [][ListReceived =>
            LET w == lastWrite[cacheKey(last'.user)]
            IN  (w.op = "set" /\ w.data = Arr(<<>>) /\ now - w.at < CACHE_TTL_MS) =>
                    /\ last'.status = 200
                    /\ last'.from = "cache"
                    /\ last'.body = Arr(<<>>)
                    /\ req' = req
      ]_vars

\* The empty listing served from the cache.
C7_Witness ==
    /\ LastGet
    /\ last.status = 200
    /\ last.from = "cache"
    /\ last.body = Arr(<<>>)

\* C8 (overwrite): right after setCache(k, v) the entry of k is v, stamped with
\* the clock of the call, whatever stood there before; and as long as the last
\* write of k is a setCache(k, v) not yet expired, the entry of k is that v
\* with that stamp.
C8_Overwrite ==
    /\ last.op = "set" =>
            /\ LastKey \in DOMAIN cache
            /\ cache[LastKey] = [data |-> last.body, timestamp |-> last.at]
            /\ lastWrite[LastKey].data = last.body
    /\ \A k \in Keys :
            (lastWrite[k].op = "set" /\ now - lastWrite[k].at < CACHE_TTL_MS) =>
                /\ k \in DOMAIN cache
                /\ cache[k] = [data |-> lastWrite[k].data, timestamp |-> lastWrite[k].at]

\* A setCache over an entry that was expired but still present.
C8_Witness ==
    /\ last.op = "set"
    /\ last.before = "expired"
    /\ cache[LastKey] = [data |-> last.body, timestamp |-> last.at]

\* C9 (lazy cleanup): a getCache(k) that finds an entry CACHE_TTL_MS old or
\* older returns null, and the entry is gone from the cache object.
C9_LazyCleanup ==
    (LastGet /\ last.before = "expired") =>
        /\ last.result = Null
        /\ LastKey \notin DOMAIN cache

\* Such a read happened.
C9_Witness ==
    /\ LastGet
    /\ last.before = "expired"
    /\ last.result = Null

\* C10: a getCache(k) on a key without an entry returns null and leaves the
\* whole cache object as it was.
C10_MissHasNoEffect ==
    [][(ListReceived /\ cacheKey(last'.user) \notin DOMAIN cache) =>
            /\ last'.result = Null
            /\ cache' = cache]_vars

\* A miss on one user's key while another user's entry is in the cache.
C10_Witness ==
    /\ LastGet
    /\ last.before = "absent"
    /\ last.result = Null
    /\ \E k \in Keys \ {LastKey} : k \in DOMAIN cache

\* C11 (invalidate idempotence): invalidateCache(k) on a key without an entry
\* leaves the cache object as it was, in the abstract and in every handler
\* step that makes such a call; and in every cache state a second
\* invalidateCache(k) changes nothing after the first.
C11_InvalidateIdempotent ==
    /\ [](\A k \in Keys :
            /\ k \notin DOMAIN cache => invalidateCache(cache, k, now) = cache
            /\ invalidateCache(invalidateCache(cache, k, now), k, now)
                    = invalidateCache(cache, k, now))
    /\ [][\A k \in Keys :
            (lastWrite'[k] # lastWrite[k] /\ lastWrite'[k].op = "invalidate") =>
                /\ k \notin DOMAIN cache => cache' = cache
                /\ invalidateCache(cache', k, now) = cache']_vars

\* A delete's invalidation found the key already without an entry (the upload
\* of the file had invalidated it before).
C11_Witness ==
    /\ last.kind = "delete"
    /\ last.op = "invalidate"
    /\ last.before = "absent"
    /\ lastWrite[LastKey].by = "delete"
    /\ cache = <<>>

\* The entry of a key in a cache object, or its absence.
EntryOf(c, k) == IF k \in DOMAIN c THEN <<c[k]>> ELSE <<>>

\* C12 (key isolation): setCache, getCache and invalidateCache on k1 leave the
\* entry of every other key k2 (or its absence) and the result of getCache(k2)
\* as they were; a handler step changes the entry of k2 only by a cache call
\* on k2.
C12_KeyIsolation ==
    /\ [](\A k1 \in Keys : \A k2 \in Keys \ {k1} :
            \A c \in {setCache(cache, k1, Arr(<<>>), now),
                       getCacheStore(cache, k1, now),
                       invalidateCache(cache, k1, now)} :
                /\ EntryOf(c, k2) = EntryOf(cache, k2)
                /\ getCacheResult(c, k2, now) = getCacheResult(cache, k2, now))
    /\ [][\A k2 \in Keys :
            EntryOf(cache', k2) # EntryOf(cache, k2) =>
                /\ last'.op \in {"get", "set", "invalidate"}
                /\ cacheKey(last'.user) = k2]_vars

\* A listing was stored for one user while the other user's entry, stored
\* earlier, is still in the cache as it was written.
C12_Witness ==
    /\ last.op = "set"
    /\ \E k \in Keys \ {LastKey} :
            /\ k \in DOMAIN cache
            /\ lastWrite[k].op = "set"
            /\ cache[k] = [data |-> lastWrite[k].data, timestamp |-> lastWrite[k].at]

\* C13 (duplicate-work race): a list request that missed finds, when its select
\* has succeeded, an entry that a concurrent list request for the same user
\* stored in the meantime; the claim is that the two fetched listings are the
\* same and that the entry after this later setCache is the table's listing
\* for the user as of the later of the two fetches.
C13_DuplicateWorkSameListing ==
    [][\A r \in Slots :
            LET key == cacheKey(req[r].user)
            IN  (Resumes(r, "ret_select") /\ req[r].ret.kind = "ok"
                    /\ key \in DOMAIN cache) =>
                    /\ req[r].ret.data = cache[key].data
                    /\ cache'[key].data =
                            history[req[r].user][IF req[r].seen >= lastWrite[key].seen
                                                 THEN req[r].seen
                                                 ELSE lastWrite[key].seen]]_vars

\* C14 (staleness bounded by one TTL window): once an upload or delete of user
\* u went through and invalidated u's key at time tm, a list response for u
\* made at tm + CACHE_TTL_MS or later carries a listing read from the table
\* after that mutation was applied.
C14_BoundedStaleness ==
    (/\ last.kind = "list"
     /\ last.status = 200
     /\ lastMutation[last.user].op # "none"
     /\ last.at >= lastMutation[last.user].at + CACHE_TTL_MS)
        => last.seen >= lastMutation[last.user].ver

\* C15 (per-key state machine): the cache starts without entries; a key gets
\* an entry only by setCache on that key; a key loses its entry only by
\* invalidateCache on that key or by a getCache on that key that finds the entry
\* expired; the cache object holds entries under the users' keys only, one
\* {data, timestamp} record per key.
C15_KeyStateMachine ==
    /\ cache = <<>>
    /\ [](/\ DOMAIN cache \subseteq Keys
          /\ \A k \in DOMAIN cache : DOMAIN cache[k] = {"data", "timestamp"})
    /\ [][\A k \in Keys :
            /\ (k \notin DOMAIN cache /\ k \in DOMAIN cache') =>
                    /\ last'.op = "set"
                    /\ cacheKey(last'.user) = k
            /\ (k \in DOMAIN cache /\ k \notin DOMAIN cache') =>
                    /\ cacheKey(last'.user) = k
                    /\ \/ last'.op = "invalidate"
                       \/ last'.op = "get" /\ last'.before = "expired"]_vars

\* An invalidation removed an entry that had expired but was still present.
C15_Witness ==
    /\ last.op = "invalidate"
    /\ last.before = "expired"
    /\ LastKey \notin DOMAIN cache

\* C16 (no background sweeper): a step in which the clock advances leaves the
\* cache object as it is; an entry that has reached CACHE_TTL_MS changes or
\* goes only in a handler step that calls getCache, setCache or
\* invalidateCache on its key.
C16_NoSweeper ==
    [][/\ now' # now => cache' = cache
       /\ \A k \in DOMAIN cache :
            (now - cache[k].timestamp >= CACHE_TTL_MS
                /\ EntryOf(cache', k) # EntryOf(cache, k)) =>
                    /\ now' = now
                    /\ last'.op \in {"get", "set", "invalidate"}
                    /\ last'.at = now
                    /\ cacheKey(last'.user) = k]_vars

\* An entry stored at the start is still in the cache object, unchanged, one
\* millisecond after the clock passed its expiry.
C16_Witness ==
    \E k \in DOMAIN cache :
        /\ now - cache[k].timestamp > CACHE_TTL_MS
        /\ cache[k] = [data |-> lastWrite[k].data, timestamp |-> lastWrite[k].at]

\* A list request is answered 200 in this step, from the cache or after its
\* select.
ListAnswered ==
    \/ ListReceived /\ last'.status = 200
    \/ \E r \in Slots : Resumes(r, "ret_select") /\ req[r].ret.kind = "ok"

C18_PerUserListings ==
    /\ [](\A u \in Accounts :
            history[u][Len(history[u])] = Arr(Listing(save_metadata, u)))
    /\ [][/\ ListAnswered =>
                LET u == last'.user
                    key == cacheKey(u)
                IN  /\ last'.seen \in 1..Len(history[u])
                    /\ last'.body = history[u][last'.seen]
                    /\ last'.from = "cache" =>
                            /\ key \in DOMAIN cache
                            /\ last'.body = cache[key].data
                    /\ last'.from = "store" =>
                            \E r \in Slots : /\ Resumes(r, "ret_select")
                                              /\ req[r].user = u
                                              /\ last'.body = req[r].ret.data
          /\ \A r \in Slots :
                (req[r].pc = "await_select" /\ req'[r].pc = "ret_select"
                    /\ req'[r].ret.kind = "ok") =>
                        /\ req'[r].seen = Len(history[req[r].user])
                        /\ req'[r].ret.data = history[req[r].user][req'[r].seen]
          /\ \A k \in Keys :
                (lastWrite'[k] # lastWrite[k] /\ lastWrite'[k].op = "set") =>
                    \E r \in Slots : /\ Resumes(r, "ret_select")
                                      /\ cacheKey(req[r].user) = k
                                      /\ lastWrite'[k].data = req[r].ret.data
          /\ \A r \in Slots :
                (req[r].kind \in {"upload", "delete"} /\ req'[r] # req[r]) =>
                    \A a \in Accounts \ {req[r].user} :
                        EntryOf(cache', cacheKey(a)) = EntryOf(cache, cacheKey(a))
         ]_vars

\* A user with no files is sent the empty listing, fetched for them, while the
\* other user's listing with a file in it sits in the cache.
C18_Witness ==
    /\ last.kind = "list"
    /\ last.status = 200
    /\ last.from = "store"
    /\ last.body = Arr(<<>>)
    /\ \E a \in Accounts \ {last.user} :
            /\ cacheKey(a) \in DOMAIN cache
            /\ Len(cache[cacheKey(a)].data.items) > 0

\* C19 (ownership check): the lookup of a download or delete finds a row only
\* if the table holds a row of the requesting user with the requested name,
\* and that row; when the lookup finds none the request is answered 404 and
\* nothing is removed; a download sends the content of the object that row
\* names, an object of the requesting user and name; and the rows and objects
\* a request's backend calls remove are of its own user and file name.
C19_OwnershipCheck ==
    [][\A r \in Slots :
        /\ (req[r].pc \in {"await_owner", "await_find"} /\ req'[r] # req[r]) =>
                IF \E row \in save_metadata :
                        row.user_id = req[r].user /\ row.file_name = req[r].file
                THEN req'[r].meta.found =>
                        \E row \in save_metadata :
                            /\ row.user_id = req[r].user
                            /\ row.file_name = req[r].file
                            /\ row.id = req'[r].meta.id
                            /\ row.storage_path = req'[r].meta.storage_path
                ELSE ~req'[r].meta.found /\ req'[r].ret.kind \in {"error", "throw"}
        /\ ((Resumes(r, "ret_owner") \/ Resumes(r, "ret_find"))
                /\ (req[r].ret.kind = "error" \/ ~req[r].meta.found)
                /\ req[r].ret.kind # "throw") =>
                    /\ last'.status = 404
                    /\ last'.object = NoPath
                    /\ req'[r].pc = "idle"
        /\ (Resumes(r, "ret_download") /\ last'.status = 200) =>
                /\ req[r].meta.found
                /\ last'.object = req[r].meta.storage_path
                /\ last'.object[1] = req[r].user
                /\ last'.object[3] = req[r].file
        /\ req'[r] # req[r] =>
                /\ \A row \in save_metadata :
                        (\A now_row \in save_metadata' : now_row.id # row.id) =>
                            /\ req[r].kind = "delete"
                            /\ row.user_id = req[r].user
                            /\ row.file_name = req[r].file
                /\ \A object \in storage \ storage' :
                        /\ req[r].kind \in {"delete", "upload"}
                        /\ object[1] = req[r].user
                        /\ object[3] = req[r].file
      ]_vars

\* A user asking for a file name they do not own is answered 404 while the
\* other user's file of that name, row and object, stays in place.
C19_Witness ==
    /\ last.kind \in {"download", "delete"}
    /\ last.status = 404
    /\ \E row \in save_metadata :
            /\ row.user_id # last.user
            /\ row.storage_path \in storage

\* The upload of slot r has failed: its storage upload or its upsert did not
\* go through, or it is removing the object it uploaded.
UploadFailed(r) ==
    /\ req[r].kind = "upload"
    /\ \/ req[r].pc \in {"ret_upload", "ret_upsert"} /\ req[r].ret.kind # "ok"
       \/ req[r].pc \in {"await_cleanup", "ret_cleanup"}

\* C20 (a failed upload does not invalidate): from the failure of its storage
\* upload or of its upsert on, no step of an upload request changes the cache
\* object or a row of the table, no cache function is called, and the request
\* ends with a 500; a failing upsert itself leaves the table as it was.
C20_FailedUploadLeavesCache ==
    [][\A r \in Slots :
        /\ (UploadFailed(r) /\ req'[r] # req[r]) =>
                /\ cache' = cache
                /\ lastWrite' = lastWrite
                /\ lastMutation' = lastMutation
                /\ save_metadata' = save_metadata
                /\ \/ req'[r].pc \in {"await_cleanup", "ret_cleanup"} /\ last' = last
                   \/ /\ req'[r].pc = "idle"
                      /\ last'.kind = "upload"
                      /\ last'.status = 500
                      /\ last'.op = "none"
        /\ (req[r].pc \in {"await_upload", "await_upsert"} /\ req'[r] # req[r]
                /\ req'[r].ret.kind # "ok") => save_metadata' = save_metadata
      ]_vars

\* A failed upload was answered 500 and the live entry of the user is
\* still in the cache as it was stored.
C20_Witness ==
    /\ last.kind = "upload"
    /\ last.status = 500
    /\ LastKey \in DOMAIN cache
    /\ now - cache[LastKey].timestamp < CACHE_TTL_MS
    /\ cache[LastKey] = [data |-> lastWrite[LastKey].data,
                         timestamp |-> lastWrite[LastKey].at]

C22_DeleteToleratesStorageError ==
    [][\A r \in Slots :
        /\ (Resumes(r, "ret_remove") /\ req[r].ret.kind = "error") =>
                /\ req'[r].pc = "await_dbdelete"
                /\ req'[r].meta = req[r].meta
                /\ last' = last
                /\ save_metadata' = save_metadata
        /\ (req[r].pc = "await_dbdelete" /\ req'[r] # req[r]
                /\ req'[r].ret.kind = "ok") =>
                    \A row \in save_metadata' : row.id # req[r].meta.id
        /\ (Resumes(r, "ret_dbdelete") /\ req[r].ret.kind = "ok"
                /\ req[r].meta.storage_path \in storage) =>
                    /\ cacheKey(req[r].user) \notin DOMAIN cache'
                    /\ lastWrite'[cacheKey(req[r].user)].op = "invalidate"
                    /\ last'.kind = "delete"
                    /\ last'.status = 200
                    /\ req'[r].pc = "idle"
      ]_vars

\* One upload and one delete: the delete was answered 200, the row is gone
\* and the object, whose removal failed, is still in storage.
C22_Witness ==
    /\ received = 2
    /\ last.kind = "delete"
    /\ last.status = 200
    /\ last.op = "invalidate"
    /\ save_metadata = {}
    /\ storage # {}

\* A step of slot r's delete from its receipt to its answer to a lookup that
\* did not find the row.
DeleteLookupStep(r) ==
    \/ (req[r].pc = "idle" /\ req'[r].kind = "delete")
    \/ (req[r].kind = "delete" /\ req[r].pc = "await_find" /\ req'[r] # req[r])
    \/ (Resumes(r, "ret_find") /\ req[r].ret.kind # "ok")

\* C23 (delete of an unknown file changes nothing): no step of a delete up to
\* and including its answer to a lookup that returned an error or no row
\* changes storage, the table or the cache, and that answer is 404; a delete
\* whose row deletion failed answers 500 and calls no cache function.
C23_DeleteUnknownChangesNothing ==
    [][\A r \in Slots :
        /\ DeleteLookupStep(r) =>
                /\ storage' = storage
                /\ save_metadata' = save_metadata
                /\ cache' = cache
                /\ lastWrite' = lastWrite
        /\ (Resumes(r, "ret_find") /\ req[r].ret.kind = "error") =>
                /\ last'.kind = "delete"
                /\ last'.status = 404
                /\ last'.op = "none"
                /\ req'[r].pc = "idle"
        /\ (req[r].kind = "delete" /\ req[r].pc = "await_find" /\ req'[r] # req[r]
                /\ (\A row \in save_metadata :
                        row.user_id # req[r].user \/ row.file_name # req[r].file)) =>
                    req'[r].ret.kind \in {"error", "throw"}
        /\ (Resumes(r, "ret_dbdelete") /\ req[r].ret.kind # "ok") =>
                /\ last'.kind = "delete"
                /\ last'.status = 500
                /\ last'.op = "none"
                /\ cache' = cache
                /\ lastWrite' = lastWrite
                /\ lastMutation' = lastMutation
                /\ req'[r].pc = "idle"
      ]_vars

\* A delete whose row deletion failed was answered 500 and the listing with
\* the file in it is still in the cache.
C23_Witness ==
    /\ last.kind = "delete"
    /\ last.status = 500
    /\ LastKey \in DOMAIN cache
    /\ Len(cache[LastKey].data.items) > 0
    /\ \E row \in save_metadata : row.user_id = last.user

\* The requests in flight.
InFlight == {r \in Slots : req[r].pc # "idle"}

\* C24 (every request gets exactly one response): every request received is in
\* flight or has been answered, once: the responses sent are as many as the
\* requests that are over.
C24_ExactlyOneResponse ==
    received = responses + Cardinality(InFlight)

\* C25 (invalid custom_metadata): an upload that carries a file and a
\* custom_metadata that is not valid JSON performs no storage upload, no
\* table write and no cache call, and is answered with an error status.
C25_InvalidJsonRejected ==
    [][\A r \in Slots :
        /\ req'[r].pc = "rejected" =>
                /\ storage' = storage
                /\ save_metadata' = save_metadata
                /\ cache' = cache
                /\ lastWrite' = lastWrite
        /\ (req[r].pc = "rejected" /\ req'[r] # req[r]) =>
                /\ storage' = storage
                /\ save_metadata' = save_metadata
                /\ cache' = cache
                /\ lastWrite' = lastWrite
                /\ responses' = responses + 1
                /\ last'.kind = "upload"
                /\ last'.status \in {400, 500}
      ]_vars

\* C26 (no sliding expiration): a getCache that returns the entry's data leaves
\* the entry as the last setCache wrote it, data and timestamp, whatever the
\* number of reads since; a hit comes less than CACHE_TTL_MS after that
\* setCache.
C26_NoSlidingExpiration ==
    /\ []((LastGet /\ Truthy(last.result)) =>
            /\ LastKey \in DOMAIN cache
            /\ lastWrite[LastKey].op = "set"
            /\ cache[LastKey] = [data |-> lastWrite[LastKey].data,
                                 timestamp |-> lastWrite[LastKey].at]
            /\ last.at - lastWrite[LastKey].at < CACHE_TTL_MS)
    /\ [][(ListReceived /\ Truthy(last'.result)) =>
            /\ cache' = cache
            /\ lastWrite' = lastWrite]_vars

\* Three list requests: the listing stored at the start is served one
\* millisecond before its expiry, its timestamp still that of the start.
C26_Witness ==
    /\ received = 3
    /\ responses = 3
    /\ rev = 0
    /\ LastGet
    /\ last.from = "cache"
    /\ last.at = CACHE_TTL_MS - 1
    /\ cache[LastKey].timestamp = 0

\* C27 (no dangling metadata): with no request in flight, the storage_path of
\* every row of the table names an object in storage.
C27_NoDanglingMetadata ==
    NoOverlap => \A row \in save_metadata : row.storage_path \in storage

\* C28 (no orphaned storage objects): with no request in flight, every object
\* in storage is named by the storage_path of a row of the table.
C28_NoOrphanedObjects ==
    NoOverlap => \A object \in storage :
                    \E row \in save_metadata : row.storage_path = object

\* C29 (logout clears the view): once handleLogout has finished, and until a
\* later login, currentUser and currentSession are null and the save-file list
\* is empty, also when a loadSaveFiles call started before the logout completes
\* afterwards.
C29_LogoutClearsView ==
    lastLogout.finished =>
        /\ currentUser = null
        /\ currentSession = null
        /\ saveFilesListUL = <<>>

=============================================================================
